---- MODULE Spec2Model ----
(***************************************************************************)
(* A model of wishlist-rs: the validated persistence layer (lists, items,  *)
(* users, user sessions), the session-backed authentication functions and  *)
(* the JSON API handlers of the list resource.                             *)
(*                                                                         *)
(* Text fields (title, description) are represented by their character     *)
(* count, the only thing the validation rules read; two texts of the same  *)
(* length are identified.  Usernames and passwords are strings.  Time is   *)
(* counted in whole days.  The created_at and updated_at columns of users, *)
(* which no operation reads, are left out of the users rows.               *)
(***************************************************************************)
EXTENDS Integers, Sequences, FiniteSets, TLC

VARIABLES
    users,          \* table users
    user_sessions,  \* table user_sessions
    nextUserId,     \* next id the storage assigns to a users row
    nextSessionId,  \* next id the storage assigns to a user_sessions row
    nextToken,      \* number of session tokens generated so far
    now,            \* the clock, in days
    lists,          \* table lists
    items,          \* table items
    nextListId,     \* next id the storage assigns to a lists row
    nextItemId,     \* next id the storage assigns to an items row
    nextKey,        \* number of list keys generated so far
    fkPolicy,       \* what the schema does with the items of a deleted list
    inflight,       \* per request slot: the handler suspended between two storage calls
    candidate,      \* the entity or form handed to the validation engine
    response        \* the outcome of the last operation

vars == <<users, user_sessions, nextUserId, nextSessionId, nextToken, now, lists, items, nextListId, nextItemId, nextKey, fkPolicy,
          inflight, candidate, response>>

authVars == <<users, user_sessions, nextUserId, nextSessionId, nextToken, now>>

listVars == <<lists, items, nextListId, nextItemId, nextKey, fkPolicy, inflight>>

----------------------------------------------------------------------------
(* Bounds of the model *)

MaxUsers == 2
MaxSessions == 2
MaxTime == 8
MaxLists == 2
MaxItems == 2
MaxConnections == 2

(* Program constants *)

TitleMin == 2
TitleMax == 256
DescriptionMax == 4096
ListIdMin == 1
PasswordMin == 8
PasswordMax == 128
SessionDays == 7

----------------------------------------------------------------------------
(* Option and Result values *)

None == [some |-> FALSE]
Some(v) == [some |-> TRUE, value |-> v]

Ok(v) == [ok |-> TRUE, value |-> v]
Err(e) == [ok |-> FALSE, error |-> e]

(* DataError and sqlx::Error *)
Validation(errs) == [kind |-> "Validation", errors |-> errs]
Sqlx(what) == [kind |-> "Sqlx", sqlx |-> what]
Other(msg) == [kind |-> "Other", message |-> msg]

----------------------------------------------------------------------------
(* Validation engine: the rules derived on List, Item and NewUser.  A       *)
(* ValidationErrors value is the set of (field, code) entries.             *)

FieldError(f, c) == [field |-> f, code |-> c]

Fields(errs) == {e.field : e \in errs}

length(f, chars, min, max) ==
    IF chars < min \/ chars > max THEN {FieldError(f, "length")} ELSE {}

range_min(f, n, min) ==
    IF n < min THEN {FieldError(f, "range")} ELSE {}

must_match(f, a, b) ==
    IF a # b THEN {FieldError(f, "must_match")} ELSE {}

validate_password(password) ==
    IF password = "password" THEN {FieldError("password", "insecure")}
    ELSE IF password = "hunter2" THEN {FieldError("password", "insecure")}
    ELSE {}

List_validate(l) ==
    length("title", l.title, TitleMin, TitleMax)
        \cup length("description", l.description, 0, DescriptionMax)

Item_validate_failfast(i) ==
    IF range_min("list_id", i.list_id, ListIdMin) # {}
    THEN range_min("list_id", i.list_id, ListIdMin)
    ELSE IF length("title", i.title, TitleMin, TitleMax) # {}
    THEN length("title", i.title, TitleMin, TitleMax)
    ELSE length("description", i.description, 0, DescriptionMax)

Item_validate(i) ==
    range_min("list_id", i.list_id, ListIdMin)
        \cup length("title", i.title, TitleMin, TitleMax)
        \cup length("description", i.description, 0, DescriptionMax)

NewUser_validate(f) ==
    length("password", Len(f.password), PasswordMin, PasswordMax)
        \cup validate_password(f.password)
        \cup must_match("password_confirm", f.password_confirm, f.password)

----------------------------------------------------------------------------
(* The validation engine as a pure function: a candidate entity or form is  *)
(* drawn, then validated.                                                  *)

TextInputs == {0, 1, TitleMin, TitleMax, TitleMax + 1}
DescriptionInputs == {0, DescriptionMax, DescriptionMax + 1}
ListIdInputs == {-1, 0, 1, 2}

LongPassword == "aaaaaaaaaaaaaaaaaaaaaaaaaaaaaaaaaaaaaaaaaaaaaaaaaaaaaaaaaaaaaaaaaaaaaaaaaaaaaaaaaaaaaaaaaaaaaaaaaaaaaaaaaaaaaaaaaaaaaaaaaaaaaaaaa"
PasswordInputs == {"hunter2", "password", "short", "correct-horse", LongPassword}

ItemCandidates ==
    [type : {"Item"}, id : {0}, list_id : ListIdInputs, title : TextInputs,
     description : DescriptionInputs]

ListCandidates ==
    [type : {"List"}, id : {0}, is_private : BOOLEAN, title : TextInputs,
     description : DescriptionInputs]

NewUserCandidates ==
    [type : {"NewUser"}, username : {"alice"}, email : {"alice@example.org"},
     password : PasswordInputs, password_confirm : PasswordInputs]

Idle == [op |-> "none"]

AuthIdle ==
    /\ users = {} /\ user_sessions = {} /\ nextUserId = 1 /\ nextSessionId = 1
    /\ nextToken = 0 /\ now = 0

ListsIdle ==
    /\ lists = {} /\ items = {} /\ nextListId = 1 /\ nextItemId = 1 /\ nextKey = 0
    /\ fkPolicy = "cascade" /\ inflight = <<>>

InitValidate ==
    /\ AuthIdle /\ ListsIdle
    /\ candidate \in ItemCandidates \cup ListCandidates \cup NewUserCandidates
    /\ response = Idle

Validated(errs) ==
    /\ response = Idle
    /\ response' = [op |-> "validate", errors |-> errs]
    /\ UNCHANGED <<authVars, listVars, candidate>>

ValidateItem == candidate.type = "Item" /\ Validated(Item_validate(candidate))

ValidateList == candidate.type = "List" /\ Validated(List_validate(candidate))

ValidateNewUser == candidate.type = "NewUser" /\ Validated(NewUser_validate(candidate))

NextValidate == ValidateItem \/ ValidateList \/ ValidateNewUser

SpecValidate == InitValidate /\ [][NextValidate]_vars

----------------------------------------------------------------------------
(* Users and sessions: db/models/user.rs, db/models/user_session.rs,       *)
(* web/auth.rs, web/account.rs                                             *)

(* The key generator: a token no earlier call returned. *)
random_token == <<"token", nextToken + 1>>

ForgedToken == <<"token", 0>>

(* bcrypt: the hash of a password verifies that password and no other; a   *)
(* string that is not a bcrypt hash makes verify fail with an error.       *)
EmptyHash == <<>>

bcrypt_hash(password) == <<"$2b$", password>>

bcrypt_verify(password, hash) ==
    IF Len(hash) # 2 THEN Err([kind |-> "Bcrypt"]) ELSE Ok(hash[2] = password)

InvalidLogin == [kind |-> "InvalidLogin", message |-> "Incorrect username or password"]

AuthBcrypt == [kind |-> "Bcrypt", message |-> "Bcrypt error"]

First(rows) == IF rows = {} THEN None ELSE Some(CHOOSE r \in rows : TRUE)

User_find_by_id_in(table, id) == First({u \in table : u.id = id})

User_find_by_id(id) == User_find_by_id_in(users, id)

User_find_by_username(username) == First({u \in users : u.username = username})

UserSession_find_by_token_in(table, token) == First({s \in table : s.token = token})

UserSession_find_by_token(token) == UserSession_find_by_token_in(user_sessions, token)

(* The unique constraint of users.username. *)
UsernameTaken(username) == \E u \in users : u.username = username

verify_user_login_leaky(login) ==
    LET user == User_find_by_username(login.username) IN
    IF ~user.some THEN Err([kind |-> "UnknownUser", message |-> "No such user"])
    ELSE LET verified == bcrypt_verify(login.password, user.value.password_hash) IN
         IF ~verified.ok THEN Err(AuthBcrypt)
         ELSE IF verified.value THEN Ok(user.value)
         ELSE Err(InvalidLogin)

verify_user_login(login) ==
    LET user == User_find_by_username(login.username) IN
    IF ~user.some THEN Err(InvalidLogin)
    ELSE LET verified == bcrypt_verify(login.password, user.value.password_hash) IN
         IF ~verified.ok THEN Err(AuthBcrypt)
         ELSE IF verified.value THEN Ok(user.value)
         ELSE Err(InvalidLogin)

(* What can go wrong underneath the request guard: no connection from the  *)
(* pool, or a failing SELECT.                                              *)
StorageFaults == {"connection", "find_by_token", "find_by_id"}

LoggedInUser_resolve_any_user(cookie, faults) ==
    IF ~cookie.some THEN None
    ELSE IF "connection" \in faults THEN None
    ELSE LET user_session == IF "find_by_token" \in faults THEN Err(Sqlx("Io"))
                             ELSE Ok(UserSession_find_by_token(cookie.value)) IN
         IF ~user_session.ok THEN None
         ELSE IF ~user_session.value.some THEN None
         ELSE LET user == IF "find_by_id" \in faults THEN Err(Sqlx("Io"))
                          ELSE Ok(First(users)) IN
              IF ~user.ok THEN None
              ELSE IF user.value.some THEN Some([user |-> user.value.value])
              ELSE None

LoggedInUser_resolve_in_deleted(sessions, table, cookie, faults) ==
    IF ~cookie.some THEN None
    ELSE IF "connection" \in faults THEN None
    ELSE LET user_session == IF "find_by_token" \in faults THEN Err(Sqlx("Io"))
                             ELSE Ok(UserSession_find_by_token_in(sessions, cookie.value)) IN
         IF ~user_session.ok THEN None
         ELSE IF ~user_session.value.some THEN None
         ELSE LET user == IF "find_by_id" \in faults THEN Err(Sqlx("Io"))
                          ELSE Ok(User_find_by_id_in(table, user_session.value.value.user_id)) IN
              IF ~user.ok THEN None
              ELSE IF user.value.some THEN Some([user |-> user.value.value])
              ELSE Some([user |-> [id |-> user_session.value.value.user_id,
                                   username |-> "", email |-> "",
                                   password_hash |-> EmptyHash]])

(* The body of the request guard: every `?` in it ends the resolution with *)
(* None, whether the value is absent or the call behind it failed.         *)
LoggedInUser_resolve_in(sessions, table, cookie, faults) ==
    IF ~cookie.some THEN None
    ELSE IF "connection" \in faults THEN None
    ELSE LET user_session == IF "find_by_token" \in faults THEN Err(Sqlx("Io"))
                             ELSE Ok(UserSession_find_by_token_in(sessions, cookie.value)) IN
         IF ~user_session.ok THEN None
         ELSE IF ~user_session.value.some THEN None
         ELSE LET user == IF "find_by_id" \in faults THEN Err(Sqlx("Io"))
                          ELSE Ok(User_find_by_id_in(table, user_session.value.value.user_id)) IN
              IF ~user.ok THEN None
              ELSE IF user.value.some THEN Some([user |-> user.value.value])
              ELSE None

(* The guard on the tables of the current state. *)
LoggedInUser_resolve(cookie, faults) ==
    LoggedInUser_resolve_in(user_sessions, users, cookie, faults)

(* The request guard: the logged-in user of a request carrying `cookie`,   *)
(* with the storage working.                                               *)
LoggedInUser_from_request(cookie) == LoggedInUser_resolve(cookie, {})

(* What a request can carry as its session_id cookie: nothing, a token the *)
(* server issued, or a made-up value.                                      *)
IssuedTokens == {<<"token", n>> : n \in 1..nextToken}

Cookies == {None, Some(ForgedToken)} \cup {Some(token) : token \in IssuedTokens}

Usernames == {"alice", "bob"}
RegisterPasswords == {"correct-horse", "hunter2"}
LoginPasswords == {"correct-horse", "wrong-horse"}

NewUsers ==
    [type : {"NewUser"}, username : Usernames, email : {"user@example.org"},
     password : RegisterPasswords, password_confirm : RegisterPasswords]

UserLogins == [username : Usernames, password : LoginPasswords]

InitAuth ==
    /\ AuthIdle /\ ListsIdle
    /\ candidate = Idle
    /\ response = Idle

(* The storage effect of a call on the users table: its result and the     *)
(* table after it.                                                         *)
UserEffect(result, users_) == [result |-> result, users |-> users_]

User_new(username, email, password_hash) ==
    [id |-> 0, username |-> username, email |-> email, password_hash |-> password_hash]

(* The row a users statement returns: RETURNING ... '' as password_hash *)
User_returning(row) == [row EXCEPT !.password_hash = EmptyHash]

User_create_swallowing(username, email, password_hash) ==
    LET self == User_new(username, email, password_hash) IN
    IF UsernameTaken(self.username)
    THEN UserEffect(Ok(User_returning(self)), users)
    ELSE LET row == [self EXCEPT !.id = nextUserId] IN
         UserEffect(Ok(User_returning(row)), users \cup {row})

(* User::create -> User::new -> User::save -> User::do_insert *)
User_create(username, email, password_hash) ==
    LET self == User_new(username, email, password_hash) IN
    IF UsernameTaken(self.username)
    THEN UserEffect(Err(Sqlx("Database")), users)
    ELSE LET row == [self EXCEPT !.id = nextUserId] IN
         UserEffect(Ok(User_returning(row)), users \cup {row})

(* The unique constraint of users.username, for the UPDATE of a row. *)
UsernameTakenByOther(username, id) ==
    \E u \in users : u.username = username /\ u.id # id

User_do_update_echo(self) ==
    IF ~\E u \in users : u.id = self.id
    THEN UserEffect(Err(Sqlx("RowNotFound")), users)
    ELSE IF UsernameTakenByOther(self.username, self.id)
    THEN UserEffect(Err(Sqlx("Database")), users)
    ELSE LET old == CHOOSE u \in users : u.id = self.id
             row == [old EXCEPT !.username = self.username, !.email = self.email] IN
         UserEffect(Ok(self), (users \ {old}) \cup {row})

User_do_update(self) ==
    IF ~\E u \in users : u.id = self.id
    THEN UserEffect(Err(Sqlx("RowNotFound")), users)
    ELSE IF UsernameTakenByOther(self.username, self.id)
    THEN UserEffect(Err(Sqlx("Database")), users)
    ELSE LET old == CHOOSE u \in users : u.id = self.id
             row == [old EXCEPT !.username = self.username, !.email = self.email] IN
         UserEffect(Ok(User_returning(row)), (users \ {old}) \cup {row})

User_update(self, username, email) ==
    User_do_update([self EXCEPT !.username = username, !.email = email])

User_all == {User_returning(u) : u \in users}

(* User::create as register_new_user calls it *)
User_do_insert(username, email, password_hash) ==
    LET created == User_create(username, email, password_hash) IN
    /\ users' = created.users
    /\ nextUserId' = IF created.result.ok THEN nextUserId + 1 ELSE nextUserId
    /\ response' = [op |-> "register_new_user", result |-> created.result]

register_new_user(user) ==
    /\ nextUserId <= MaxUsers
    /\ IF NewUser_validate(user) # {}
       THEN /\ response' = [op |-> "register_new_user",
                            result |-> Err(Validation(NewUser_validate(user)))]
            /\ UNCHANGED <<users, nextUserId>>
       ELSE User_do_insert(user.username, user.email, bcrypt_hash(user.password))
    /\ UNCHANGED <<user_sessions, nextSessionId, nextToken, now, listVars, candidate>>

(* create_user_session, with UserSession::create *)
create_user_session(user) ==
    LET session_token == random_token
        session == [id |-> nextSessionId, token |-> session_token,
                    user_id |-> user.id, created_at |-> now, updated_at |-> now] IN
    /\ nextSessionId <= MaxSessions
    /\ user_sessions' = user_sessions \cup {session}
    /\ nextSessionId' = nextSessionId + 1
    /\ nextToken' = nextToken + 1
    /\ response' = [op |-> "do_login_2", status |-> 303, user_id |-> user.id,
                    set_cookie |-> Some(session_token)]

do_login_2(login) ==
    /\ IF verify_user_login(login).ok
       THEN create_user_session(verify_user_login(login).value)
       ELSE /\ response' = [op |-> "do_login_2", status |-> 422, login |-> login,
                            error_message |-> verify_user_login(login).error.message,
                            set_cookie |-> None]
            /\ UNCHANGED <<user_sessions, nextSessionId, nextToken>>
    /\ UNCHANGED <<users, nextUserId, now, listVars, candidate>>

(* The guard run for a request: the resolution is the request's outcome. *)
from_request(cookie) ==
    /\ response' = [op |-> "from_request", cookie |-> cookie,
                    user |-> LoggedInUser_from_request(cookie)]
    /\ UNCHANGED <<authVars, listVars, candidate>>

UserSession_destroy_by_token_all(token) ==
    user_sessions' = {}

UserSession_destroy_by_token_noop(token) ==
    user_sessions' = user_sessions

UserSession_destroy_by_token(token) ==
    user_sessions' = {s \in user_sessions : s.token # token}

destroy_user_session(cookie) ==
    /\ IF ~cookie.some
       THEN /\ response' = [op |-> "destroy_user_session", result |-> Ok("unit"),
                            remove_cookie |-> None]
            /\ UNCHANGED user_sessions
       ELSE /\ UserSession_destroy_by_token(cookie.value)
            /\ response' = [op |-> "destroy_user_session", result |-> Ok("unit"),
                            remove_cookie |-> cookie]
    /\ UNCHANGED <<users, nextUserId, nextSessionId, nextToken, now, listVars,
                   candidate>>

UserSession_destroy_outdated_inclusive ==
    LET remove_before == now - SessionDays IN
    /\ user_sessions' = {s \in user_sessions : ~(s.created_at <= remove_before)}
    /\ response' = [op |-> "destroy_outdated", result |-> Ok("unit")]
    /\ UNCHANGED <<users, nextUserId, nextSessionId, nextToken, now, listVars,
                   candidate>>

UserSession_destroy_outdated ==
    LET remove_before == now - SessionDays IN
    /\ user_sessions' = {s \in user_sessions : ~(s.created_at < remove_before)}
    /\ response' = [op |-> "destroy_outdated", result |-> Ok("unit")]
    /\ UNCHANGED <<users, nextUserId, nextSessionId, nextToken, now, listVars,
                   candidate>>

(* A day passes. *)
Tick ==
    /\ now < MaxTime
    /\ now' = now + 1
    /\ response' = [op |-> "tick"]
    /\ UNCHANGED <<users, user_sessions, nextUserId, nextSessionId, nextToken,
                   listVars, candidate>>

NextAuth ==
    \/ \E user \in NewUsers : register_new_user(user)
    \/ \E login \in UserLogins : do_login_2(login)
    \/ \E cookie \in Cookies : from_request(cookie)
    \/ \E cookie \in Cookies : destroy_user_session(cookie)
    \/ UserSession_destroy_outdated
    \/ Tick

SpecAuth == InitAuth /\ [][NextAuth]_vars

----------------------------------------------------------------------------
(* Lists and items: db/models/list.rs, db/models/item.rs, api/mod.rs,      *)
(* api/v1/lists.rs, web/items.rs                                           *)

(* The key generator: a key no earlier call returned.  A key generated for *)
(* a list that is then not stored is never seen again and is not counted.  *)
random_key == <<"key", nextKey + 1>>

UnknownKey == <<"key", 0>>

IssuedKeys == {<<"key", n>> : n \in 1..nextKey}

(* The schema of items.list_id: a foreign key to lists.id.  An insert of an  *)
(* item whose list_id is no stored list's id is rejected; the delete of a  *)
(* list that has items either deletes them too or is rejected.             *)
items_list_id_fkey_unenforced(list_id) == TRUE

items_list_id_fkey(list_id) == \E l \in lists : l.id = list_id

lists_delete_rejected(id) ==
    fkPolicy = "restrict" /\ \E i \in items : i.list_id = id

items_after_list_delete(id) ==
    IF fkPolicy = "cascade" THEN {i \in items : i.list_id # id} ELSE items

List_new(is_private, title, description) ==
    [id |-> 0, key |-> random_key, is_private |-> is_private, title |-> title,
     description |-> description]

Item_new(list_id, title, description) ==
    [id |-> 0, list_id |-> list_id, title |-> title, description |-> description]

List_all_public_unfiltered == lists

List_all_public == {l \in lists : l.is_private = FALSE}

(* The finders, on a given state of the table and on the current one. *)
List_find_by_key_in(table, key) == First({l \in table : l.key = key})

Item_find_by_id_in(table, id) == First({i \in table : i.id = id})

List_find_by_key(key) == List_find_by_key_in(lists, key)

Item_find_by_id(id) == Item_find_by_id_in(items, id)

List_count == Cardinality(lists)

Item_count == Cardinality(items)

(* The storage effect of a repository call: its result and the tables after it. *)
Effect(result, lists_, items_) == [result |-> result, lists |-> lists_, items |-> items_]

List_do_insert_echo(self) ==
    IF List_validate(self) # {}
    THEN Effect(Err(Validation(List_validate(self))), lists, items)
    ELSE Effect(Ok(self), lists \cup {[self EXCEPT !.id = nextListId]}, items)

List_do_insert_unvalidated(self) ==
    Effect(Ok([self EXCEPT !.id = nextListId]),
           lists \cup {[self EXCEPT !.id = nextListId]}, items)

List_do_insert(self) ==
    IF List_validate(self) # {}
    THEN Effect(Err(Validation(List_validate(self))), lists, items)
    ELSE LET list == [self EXCEPT !.id = nextListId] IN
         Effect(Ok(list), lists \cup {list}, items)

List_do_update_rekey(self) ==
    IF List_validate(self) # {}
    THEN Effect(Err(Validation(List_validate(self))), lists, items)
    ELSE IF ~\E l \in lists : l.id = self.id
    THEN Effect(Err(Sqlx("RowNotFound")), lists, items)
    ELSE LET old == CHOOSE l \in lists : l.id = self.id
             list == [old EXCEPT !.key = self.key,
                                 !.is_private = self.is_private,
                                 !.title = self.title,
                                 !.description = self.description] IN
         Effect(Ok(list), (lists \ {old}) \cup {list}, items)

List_do_update_patch(self) ==
    IF List_validate(self) # {}
    THEN Effect(Err(Validation(List_validate(self))), lists, items)
    ELSE IF ~\E l \in lists : l.id = self.id
    THEN Effect(Err(Sqlx("RowNotFound")), lists, items)
    ELSE LET old == CHOOSE l \in lists : l.id = self.id
             list == [old EXCEPT !.title = self.title,
                                 !.description = self.description] IN
         Effect(Ok(list), (lists \ {old}) \cup {list}, items)

List_do_update_upsert(self) ==
    IF List_validate(self) # {}
    THEN Effect(Err(Validation(List_validate(self))), lists, items)
    ELSE Effect(Ok(self), {l \in lists : l.id # self.id} \cup {self}, items)

List_do_update(self) ==
    IF List_validate(self) # {}
    THEN Effect(Err(Validation(List_validate(self))), lists, items)
    ELSE IF ~\E l \in lists : l.id = self.id
    THEN Effect(Err(Sqlx("RowNotFound")), lists, items)
    ELSE LET old == CHOOSE l \in lists : l.id = self.id
             list == [old EXCEPT !.is_private = self.is_private,
                                 !.title = self.title,
                                 !.description = self.description] IN
         Effect(Ok(list), (lists \ {old}) \cup {list}, items)

List_do_delete_kept(id) ==
    IF lists_delete_rejected(id)
    THEN Effect(Err(Sqlx("Database")), lists, items)
    ELSE Effect(Ok("unit"), lists, items)

List_do_delete(id) ==
    IF lists_delete_rejected(id)
    THEN Effect(Err(Sqlx("Database")), lists, items)
    ELSE Effect(Ok("unit"), {l \in lists : l.id # id}, items_after_list_delete(id))

List_save(self) == IF self.id = 0 THEN List_do_insert(self) ELSE List_do_update(self)

List_create(is_private, title, description) ==
    List_save(List_new(is_private, title, description))

List_update(self, is_private, title, description) ==
    List_do_update([id |-> self.id, key |-> self.key, is_private |-> is_private,
                    title |-> title, description |-> description])

List_destroy(self) ==
    IF self.id # 0 THEN List_do_delete(self.id) ELSE Effect(Ok("unit"), lists, items)

Item_do_insert(self) ==
    IF Item_validate(self) # {}
    THEN Effect(Err(Validation(Item_validate(self))), lists, items)
    ELSE IF ~items_list_id_fkey(self.list_id)
    THEN Effect(Err(Sqlx("Database")), lists, items)
    ELSE LET item == [self EXCEPT !.id = nextItemId] IN
         Effect(Ok(item), lists, items \cup {item})

Item_create(list_id, title, description) ==
    Item_do_insert(Item_new(list_id, title, description))

Item_do_update_unvalidated(self) ==
    IF ~\E i \in items : i.id = self.id
    THEN Effect(Err(Sqlx("RowNotFound")), lists, items)
    ELSE LET old == CHOOSE i \in items : i.id = self.id
             item == [old EXCEPT !.list_id = self.list_id, !.title = self.title,
                                 !.description = self.description] IN
         Effect(IF Item_validate(self) # {} THEN Err(Validation(Item_validate(self)))
                ELSE Ok(item),
                lists, (items \ {old}) \cup {item})

Item_do_update(self) ==
    IF Item_validate(self) # {}
    THEN Effect(Err(Validation(Item_validate(self))), lists, items)
    ELSE IF ~\E i \in items : i.id = self.id
    THEN Effect(Err(Sqlx("RowNotFound")), lists, items)
    ELSE IF ~items_list_id_fkey(self.list_id)
    THEN Effect(Err(Sqlx("Database")), lists, items)
    ELSE LET old == CHOOSE i \in items : i.id = self.id
             item == [old EXCEPT !.list_id = self.list_id, !.title = self.title,
                                 !.description = self.description] IN
         Effect(Ok(item), lists, (items \ {old}) \cup {item})

(* Item::update: the fields are set on the entity in memory, then do_update. *)
Item_update(self, title, description) ==
    Item_do_update([self EXCEPT !.title = title, !.description = description])

Item_do_delete(id) ==
    Effect(Ok("unit"), lists, {i \in items : i.id # id})

Item_destroy(self) ==
    IF self.id # 0 THEN Item_do_delete(self.id) ELSE Effect(Ok("unit"), lists, items)

(* The name of a DataError in a response record. *)
ErrorName(e) == IF e.kind = "Sqlx" THEN e.sqlx ELSE e.kind

(* ApiError: the status and body of an error response of the JSON API. *)
ApiError_from_sqlx(e) ==
    IF e.sqlx = "RowNotFound"
    THEN [status |-> 404, body |-> [message |-> "RowNotFound"]]
    ELSE [status |-> 500, body |-> [message |-> e.sqlx]]

ApiError_from_DataError(e) ==
    IF e.kind = "Validation" THEN [status |-> 422, body |-> e.errors]
    ELSE IF e.kind = "Sqlx" THEN ApiError_from_sqlx(e)
    ELSE [status |-> 500, body |-> [message |-> e.message]]

ApiNotFound == [status |-> 404, body |-> [message |-> "List not found"]]

(* Request inputs *)
ListForms == [is_private : BOOLEAN, title : {1, TitleMin}, description : {0}]

PublicListForms == {list \in ListForms : ~list.is_private}

EditForms == [is_private : BOOLEAN, title : {1, TitleMax}, description : {0}]

ItemForms == [title : {1, TitleMin}, description : {0}]

ItemListIds == {0, 1, 2}

Keys == IssuedKeys \cup {UnknownKey}

Slots == {"a", "b"}

NoRequest == [op |-> "idle"]

InitLists ==
    /\ AuthIdle
    /\ lists = {} /\ items = {} /\ nextListId = 1 /\ nextItemId = 1 /\ nextKey = 0
    /\ fkPolicy \in {"cascade", "restrict"}
    /\ inflight = [slot \in Slots |-> NoRequest]
    /\ candidate = Idle
    /\ response = Idle

(* The tables after a repository call; ids and keys already handed out are *)
(* not handed out again.                                                   *)
Stored(effect) ==
    /\ lists' = effect.lists
    /\ items' = effect.items
    /\ nextListId' = IF \E l \in effect.lists : l.id = nextListId
                     THEN nextListId + 1 ELSE nextListId
    /\ nextItemId' = IF \E i \in effect.items : i.id = nextItemId
                     THEN nextItemId + 1 ELSE nextItemId

(* A response: the handler, the status and, for an error, the DataError    *)
(* (or the missing list) behind it.                                        *)
Answered(op, status) == [op |-> op, status |-> status]

Failed(op, error, status) == [op |-> op, status |-> status, failure |-> error]

Suspended(op) == [op |-> op, status |-> 0]

(* GET /api/v1/lists *)
api_lists_index_response == [op |-> "api::v1::lists::index", status |-> 200,
                             body |-> List_all_public]

api_lists_index ==
    /\ response' = Answered("api::v1::lists::index", api_lists_index_response.status)
    /\ UNCHANGED <<authVars, listVars, candidate>>

(* GET /api/v1/lists/<key> *)
api_lists_show_response(key) ==
    IF List_find_by_key(key).some
    THEN [op |-> "api::v1::lists::show", status |-> 200,
          body |-> List_find_by_key(key).value]
    ELSE [op |-> "api::v1::lists::show", status |-> 404]

api_lists_show(key) ==
    /\ response' = Answered("api::v1::lists::show", api_lists_show_response(key).status)
    /\ UNCHANGED <<authVars, listVars, candidate>>

(* POST /api/v1/lists *)
api_lists_create_response(result) ==
    IF result.ok
    THEN Answered("api::v1::lists::create", 201)
    ELSE Failed("api::v1::lists::create", ErrorName(result.error), 500)

(* The outcome of a create, with the fields it was called with. *)
Requested(request, answer) ==
    IF "failure" \in DOMAIN answer
    THEN [op |-> answer.op, status |-> answer.status, failure |-> answer.failure,
          request |-> request]
    ELSE [op |-> answer.op, status |-> answer.status, request |-> request]

api_lists_create(list) ==
    LET created == List_create(list.is_private, list.title, list.description) IN
    /\ nextListId <= MaxLists
    /\ Stored(created)
    /\ nextKey' = IF created.result.ok THEN nextKey + 1 ELSE nextKey
    /\ response' = Requested(list, api_lists_create_response(created.result))
    /\ UNCHANGED <<authVars, fkPolicy, inflight, candidate>>

(* The row find_by_key returned to a handler that is then suspended: its   *)
(* id and key are all that the rest of any handler reads.                  *)
Found(key) ==
    [id |-> List_find_by_key(key).value.id, key |-> List_find_by_key(key).value.key]

(* PUT /api/v1/lists/<key>: find_by_key, then List::update, served without *)
(* another request in between.                                             *)
api_lists_update_response(result) ==
    IF result.ok
    THEN Answered("api::v1::lists::update", 200)
    ELSE Failed("api::v1::lists::update", ErrorName(result.error),
                ApiError_from_DataError(result.error).status)

api_lists_update(key, list) ==
    /\ IF List_find_by_key(key).some
       THEN LET updated == List_update(Found(key), list.is_private, list.title,
                                       list.description) IN
            /\ Stored(updated)
            /\ response' = api_lists_update_response(updated.result)
       ELSE /\ response' = Failed("api::v1::lists::update", "NotFound",
                                  ApiNotFound.status)
            /\ UNCHANGED <<lists, items, nextListId, nextItemId>>
    /\ UNCHANGED <<authVars, nextKey, fkPolicy, inflight, candidate>>

(* DELETE /api/v1/lists/<key>: find_by_key, then List::destroy *)
api_lists_destroy_response(result) ==
    IF result.ok
    THEN Answered("api::v1::lists::destroy", 204)
    ELSE Failed("api::v1::lists::destroy", ErrorName(result.error),
                ApiError_from_DataError(result.error).status)

api_lists_destroy_find(slot, key) ==
    /\ inflight[slot] = NoRequest
    /\ IF List_find_by_key(key).some
       THEN /\ inflight' = [inflight EXCEPT ![slot] =
                               [op |-> "api::v1::lists::destroy",
                                list |-> Found(key)]]
            /\ response' = Suspended("api::v1::lists::destroy")
       ELSE /\ inflight' = inflight
            /\ response' = Failed("api::v1::lists::destroy", "NotFound",
                                  ApiNotFound.status)
    /\ UNCHANGED <<authVars, lists, items, nextListId, nextItemId, nextKey, fkPolicy,
                   candidate>>

api_lists_destroy_delete(slot) ==
    /\ inflight[slot].op = "api::v1::lists::destroy"
    /\ LET destroyed == List_destroy(inflight[slot].list) IN
       /\ Stored(destroyed)
       /\ response' = api_lists_destroy_response(destroyed.result)
    /\ inflight' = [inflight EXCEPT ![slot] = NoRequest]
    /\ UNCHANGED <<authVars, nextKey, fkPolicy, candidate>>

(* The handler served without another request in between. *)
api_lists_destroy(key) ==
    /\ IF List_find_by_key(key).some
       THEN LET destroyed == List_destroy(Found(key)) IN
            /\ Stored(destroyed)
            /\ response' = api_lists_destroy_response(destroyed.result)
       ELSE /\ response' = Failed("api::v1::lists::destroy", "NotFound",
                                  ApiNotFound.status)
            /\ UNCHANGED <<lists, items, nextListId, nextItemId>>
    /\ UNCHANGED <<authVars, nextKey, fkPolicy, inflight, candidate>>

(* Item::create, as the repository's callers reach it *)
Item_created(op, list_id, item) ==
    LET created == Item_create(list_id, item.title, item.description) IN
    /\ nextItemId <= MaxItems
    /\ Stored(created)
    /\ response' = Requested(Item_new(list_id, item.title, item.description),
                             IF created.result.ok
                             THEN Answered(op, 303)
                             ELSE Failed(op, ErrorName(created.result.error), 422))

(* POST /lists/<list_key>/items: find_by_key, then Item::create *)
web_items_create_find(slot, list_key, item) ==
    /\ inflight[slot] = NoRequest
    /\ IF List_find_by_key(list_key).some
       THEN /\ inflight' = [inflight EXCEPT ![slot] =
                               [op |-> "web::items::create",
                                list |-> Found(list_key), form |-> item]]
            /\ response' = Suspended("web::items::create")
       ELSE /\ inflight' = inflight
            /\ response' = Failed("web::items::create", "NotFound", 404)
    /\ UNCHANGED <<authVars, lists, items, nextListId, nextItemId, nextKey, fkPolicy,
                   candidate>>

web_items_create_insert(slot) ==
    /\ inflight[slot].op = "web::items::create"
    /\ Item_created("web::items::create", inflight[slot].list.id, inflight[slot].form)
    /\ inflight' = [inflight EXCEPT ![slot] = NoRequest]
    /\ UNCHANGED <<authVars, nextKey, fkPolicy, candidate>>

(* The handler served without another request in between. *)
web_items_create(list_key, item) ==
    /\ IF List_find_by_key(list_key).some
       THEN Item_created("web::items::create", Found(list_key).id, item)
       ELSE /\ response' = Failed("web::items::create", "NotFound", 404)
            /\ UNCHANGED <<lists, items, nextListId, nextItemId>>
    /\ UNCHANGED <<authVars, nextKey, fkPolicy, inflight, candidate>>

(* Item::create called with any list_id *)
Item_create_call(list_id, item) ==
    /\ Item_created("Item::create", list_id, item)
    /\ UNCHANGED <<authVars, nextKey, fkPolicy, inflight, candidate>>

(* Every handler, one request served at a time. *)
NextLists ==
    \/ api_lists_index
    \/ \E key \in Keys : api_lists_show(key)
    \/ \E list \in ListForms : api_lists_create(list)
    \/ \E key \in Keys, list \in EditForms : api_lists_update(key, list)
    \/ \E key \in Keys : api_lists_destroy(key)
    \/ \E key \in Keys, item \in ItemForms : web_items_create(key, item)
    \/ \E list_id \in ItemListIds, item \in ItemForms : Item_create_call(list_id, item)

SpecLists == InitLists /\ [][NextLists]_vars

(* Creation of lists and items and deletion of lists, with two requests    *)
(* running concurrently.                                                   *)
NextRace ==
    \/ \E list \in ListForms : api_lists_create(list)
    \/ \E slot \in Slots, key \in Keys : api_lists_destroy_find(slot, key)
    \/ \E slot \in Slots : api_lists_destroy_delete(slot)
    \/ \E slot \in Slots, key \in Keys, item \in ItemForms :
           web_items_create_find(slot, key, item)
    \/ \E slot \in Slots : web_items_create_insert(slot)

SpecRace == InitLists /\ [][NextRace]_vars

----------------------------------------------------------------------------
(* The account pages: web/account.rs, with registrations racing.           *)

(* serde: the fields of a User that are serialized; password_hash is       *)
(* marked skip_serializing.                                                *)
User_serialize_full(user) ==
    [id |-> user.id, username |-> user.username, email |-> user.email,
     password_hash |-> user.password_hash]

User_serialize(user) ==
    [id |-> user.id, username |-> user.username, email |-> user.email]

LoggedInUser_serialize(logged_in) == [user |-> User_serialize(logged_in.user)]

(* bcrypt::hash either returns the hash or fails. *)
BcryptOutcomes == {"hashed", "error"}

bcrypt_hash_result_plaintext(password, outcome) ==
    IF outcome = "error" THEN Ok(<<password>>) ELSE Ok(bcrypt_hash(password))

bcrypt_hash_result(password, outcome) ==
    IF outcome = "error" THEN Err(Other("bcrypt")) ELSE Ok(bcrypt_hash(password))

(* Registration forms: the valid ones, and for one username a form for     *)
(* each way the password rules can be broken.                              *)
ValidRegisterForms ==
    [type : {"NewUser"}, username : Usernames, email : {"user@example.org"},
     password : {"correct-horse"}, password_confirm : {"correct-horse"}]

InvalidRegisterForms ==
    {[type |-> "NewUser", username |-> "alice", email |-> "user@example.org",
      password |-> p, password_confirm |-> p] : p \in PasswordInputs \ {"correct-horse"}}
    \cup {[type |-> "NewUser", username |-> "alice", email |-> "user@example.org",
           password |-> "correct-horse", password_confirm |-> "correct-horsf"]}

RegisterForms == ValidRegisterForms \cup InvalidRegisterForms

(* The faults a single request meets: none, or one of them. *)
RequestFaults == {{}} \cup {{f} : f \in StorageFaults}

InitAccount ==
    /\ AuthIdle
    /\ lists = {} /\ items = {} /\ nextListId = 1 /\ nextItemId = 1 /\ nextKey = 0
    /\ fkPolicy = "cascade"
    /\ inflight = [slot \in Slots |-> NoRequest]
    /\ candidate = Idle
    /\ response = Idle

(* The page a failed registration is answered with. *)
account_register_page(user, result) ==
    [op |-> "account::create_2", status |-> 422, register |-> user, result |-> result]

(* POST /account/register, up to the INSERT: register_new_user validates   *)
(* the form and hashes the password.                                       *)
account_create_2_begin(slot, user, outcome) ==
    LET password_hash == bcrypt_hash_result(user.password, outcome) IN
    /\ inflight[slot] = NoRequest
    /\ IF NewUser_validate(user) # {}
       THEN /\ response' = account_register_page(user,
                               Err(Validation(NewUser_validate(user))))
            /\ inflight' = inflight
       ELSE IF ~password_hash.ok
       THEN /\ response' = account_register_page(user, password_hash)
            /\ inflight' = inflight
       ELSE /\ response' = Suspended("account::create_2")
            /\ inflight' = [inflight EXCEPT ![slot] =
                               [op |-> "account::create_2", register |-> user,
                                password_hash |-> password_hash.value]]
    /\ UNCHANGED <<authVars, lists, items, nextListId, nextItemId, nextKey, fkPolicy,
                   candidate>>

(* POST /account/register, the INSERT of User::create and the answer. *)
account_create_2_insert(slot) ==
    /\ inflight[slot].op = "account::create_2"
    /\ nextUserId <= MaxUsers
    /\ LET user == inflight[slot].register
           created == User_create(user.username, user.email,
                                  inflight[slot].password_hash) IN
       /\ users' = created.users
       /\ nextUserId' = IF created.result.ok THEN nextUserId + 1 ELSE nextUserId
       /\ response' = IF created.result.ok
                      THEN [op |-> "account::create_2", status |-> 303,
                            register |-> user, result |-> created.result]
                      ELSE account_register_page(user, created.result)
    /\ inflight' = [inflight EXCEPT ![slot] = NoRequest]
    /\ UNCHANGED <<user_sessions, nextSessionId, nextToken, now, lists, items,
                   nextListId, nextItemId, nextKey, fkPolicy, candidate>>

(* GET /account: show when the guard yields a LoggedInUser, show_2 (a      *)
(* redirect to the login page) when it forwards.                           *)
account_show(cookie, faults) ==
    LET user == LoggedInUser_resolve(cookie, faults) IN
    /\ response' = IF user.some
                   THEN [op |-> "account::show", status |-> 200, cookie |-> cookie,
                         faults |-> faults,
                         context |-> [user |-> LoggedInUser_serialize(user.value)]]
                   ELSE [op |-> "account::show_2", status |-> 303, cookie |-> cookie,
                         faults |-> faults]
    /\ UNCHANGED <<authVars, listVars, candidate>>

(* Registrations racing on two request slots, logins, the account page and *)
(* list creation.                                                          *)
NextAccount ==
    \/ \E slot \in Slots, user \in RegisterForms, outcome \in BcryptOutcomes :
           account_create_2_begin(slot, user, outcome)
    \/ \E slot \in Slots : account_create_2_insert(slot)
    \/ \E login \in UserLogins : do_login_2(login)
    \/ \E cookie \in Cookies, faults \in RequestFaults : account_show(cookie, faults)
    \/ \E list \in PublicListForms : api_lists_create(list)

SpecAccount == InitAccount /\ [][NextAccount]_vars

----------------------------------------------------------------------------
(* Writes of the three tables, one request served at a time.               *)

ItemEditForms == [title : {1, TitleMax}, description : {0}]

ItemIds == 0..MaxItems

(* PUT /lists/<list_key>/items/<id>: find_by_key, find_by_id, Item::update *)
web_items_update(list_key, id, item) ==
    LET request == [list_key |-> list_key, id |-> id, item |-> item] IN
    /\ IF ~List_find_by_key(list_key).some \/ ~Item_find_by_id(id).some
       THEN /\ response' = Failed("web::items::update", "NotFound", 404)
            /\ UNCHANGED <<lists, items>>
       ELSE LET updated == Item_update(Item_find_by_id(id).value, item.title,
                                       item.description) IN
            /\ lists' = updated.lists
            /\ items' = updated.items
            /\ response' = [op |-> "web::items::update",
                            status |-> IF updated.result.ok THEN 303 ELSE 422,
                            request |-> request, result |-> updated.result]
    /\ UNCHANGED <<authVars, nextListId, nextItemId, nextKey, fkPolicy, inflight,
                   candidate>>

(* User::update called on a user read with find_by_id *)
User_update_call(id, username, email) ==
    LET updated == User_update(User_find_by_id_in(users, id).value, username, email) IN
    /\ User_find_by_id_in(users, id).some
    /\ users' = updated.users
    /\ response' = [op |-> "User::update", id |-> id, result |-> updated.result]
    /\ UNCHANGED <<user_sessions, nextUserId, nextSessionId, nextToken, now, listVars,
                   candidate>>

NextWrites ==
    \/ \E user \in NewUsers : register_new_user(user)
    \/ \E id \in 1..MaxUsers, username \in Usernames :
           User_update_call(id, username, "user@example.org")
    \/ \E list \in PublicListForms : api_lists_create(list)
    \/ \E key \in Keys, item \in ItemForms : web_items_create(key, item)
    \/ \E key \in Keys, id \in ItemIds, item \in ItemEditForms :
           web_items_update(key, id, item)

SpecWrites == InitAccount /\ [][NextWrites]_vars

----------------------------------------------------------------------------

(* Updates of one list by two requests running concurrently.               *)

(* Two edit forms that differ from each other and from every created list  *)
(* in title and description, and from each other in is_private.            *)
RaceEditForms ==
    {[is_private |-> FALSE, title |-> TitleMin + 1, description |-> 1],
     [is_private |-> TRUE, title |-> TitleMax, description |-> DescriptionMax]}

(* PUT /api/v1/lists/<key>, up to List::update: find_by_key *)
api_lists_update_find(slot, key, list) ==
    /\ inflight[slot] = NoRequest
    /\ IF List_find_by_key(key).some
       THEN /\ inflight' = [inflight EXCEPT ![slot] =
                               [op |-> "api::v1::lists::update",
                                list |-> Found(key), form |-> list]]
            /\ response' = Suspended("api::v1::lists::update")
       ELSE /\ inflight' = inflight
            /\ response' = Failed("api::v1::lists::update", "NotFound",
                                  ApiNotFound.status)
    /\ UNCHANGED <<authVars, lists, items, nextListId, nextItemId, nextKey, fkPolicy,
                   candidate>>

(* PUT /api/v1/lists/<key>: List::update on the list that was found, and   *)
(* the answer.                                                             *)
api_lists_update_save(slot) ==
    LET form == inflight[slot].form
        updated == List_update(inflight[slot].list, form.is_private, form.title,
                               form.description) IN
    /\ inflight[slot].op = "api::v1::lists::update"
    /\ Stored(updated)
    /\ response' = api_lists_update_response(updated.result)
                       @@ [key |-> inflight[slot].list.key, request |-> form]
    /\ inflight' = [inflight EXCEPT ![slot] = NoRequest]
    /\ UNCHANGED <<authVars, nextKey, fkPolicy, candidate>>

NextUpdateRace ==
    \/ \E list \in PublicListForms : api_lists_create(list)
    \/ \E slot \in Slots, key \in Keys, list \in RaceEditForms :
           api_lists_update_find(slot, key, list)
    \/ \E slot \in Slots : api_lists_update_save(slot)

SpecUpdateRace == InitAccount /\ [][NextUpdateRace]_vars

----------------------------------------------------------------------------

(* The item routes under /lists/<list_key>/items/<id>.                     *)

(* GET /lists/<list_key>/items/<id>: find_by_key, then Item::find_by_id,   *)
(* whose Option is handed to the template.                                 *)
web_items_show(list_key, id) ==
    /\ response' = IF ~List_find_by_key(list_key).some
                   THEN Failed("web::items::show", "NotFound", 404)
                   ELSE [op |-> "web::items::show", status |-> 200,
                         request |-> [list_key |-> list_key, id |-> id],
                         item |-> Item_find_by_id(id)]
    /\ UNCHANGED <<authVars, listVars, candidate>>

(* DELETE /lists/<list_key>/items/<id>: find_by_key, find_by_id, destroy *)
web_items_destroy(list_key, id) ==
    /\ IF ~List_find_by_key(list_key).some \/ ~Item_find_by_id(id).some
       THEN /\ response' = Failed("web::items::destroy", "NotFound", 404)
            /\ UNCHANGED <<lists, items>>
       ELSE LET destroyed == Item_destroy(Item_find_by_id(id).value) IN
            /\ lists' = destroyed.lists
            /\ items' = destroyed.items
            /\ response' = [op |-> "web::items::destroy", status |-> 303,
                            request |-> [list_key |-> list_key, id |-> id],
                            item |-> Item_find_by_id(id)]
    /\ UNCHANGED <<authVars, nextListId, nextItemId, nextKey, fkPolicy, inflight,
                   candidate>>

ValidListForms == {list \in ListForms : list.title = TitleMin}

ValidItemForms == {item \in ItemForms : item.title = TitleMin}

ValidItemEditForms == {item \in ItemEditForms : item.title = TitleMax}

NextItems ==
    \/ \E list \in ValidListForms : api_lists_create(list)
    \/ \E key \in Keys, item \in ValidItemForms : web_items_create(key, item)
    \/ \E key \in Keys, id \in ItemIds : web_items_show(key, id)
    \/ \E key \in Keys, id \in ItemIds, item \in ValidItemEditForms :
           web_items_update(key, id, item)
    \/ \E key \in Keys, id \in ItemIds : web_items_destroy(key, id)

SpecItems == InitAccount /\ [][NextItems]_vars

----------------------------------------------------------------------------

(* Deletion of users.                                                      *)

(* What the schema may do with the sessions of a deleted user: nothing (no *)
(* constraint on user_sessions.user_id), delete them, or refuse the        *)
(* deletion while sessions reference the user.                             *)
SessionFkPolicies == {"none", "cascade", "restrict"}

UserSessionEffect(result, users_, sessions_) ==
    [result |-> result, users |-> users_, user_sessions |-> sessions_]

(* User::do_delete: DELETE FROM users WHERE id = $1 *)
User_do_delete(id, policy) ==
    IF policy = "restrict" /\ \E s \in user_sessions : s.user_id = id
    THEN UserSessionEffect(Err(Sqlx("Database")), users, user_sessions)
    ELSE UserSessionEffect(Ok("unit"), {u \in users : u.id # id},
                           IF policy = "cascade"
                           THEN {s \in user_sessions : s.user_id # id}
                           ELSE user_sessions)

User_destroy(self, policy) ==
    IF self.id # 0 THEN User_do_delete(self.id, policy)
    ELSE UserSessionEffect(Ok("unit"), users, user_sessions)

(* User::destroy called on a user read with find_by_id *)
User_destroy_call(id, policy) ==
    LET destroyed == User_destroy(User_find_by_id(id).value, policy) IN
    /\ User_find_by_id(id).some
    /\ users' = destroyed.users
    /\ user_sessions' = destroyed.user_sessions
    /\ response' = [op |-> "User::destroy", id |-> id, policy |-> policy,
                    result |-> destroyed.result,
                    sessions |-> {s \in user_sessions : s.user_id = id}]
    /\ UNCHANGED <<nextUserId, nextSessionId, nextToken, now, listVars, candidate>>

NextOrphans ==
    \/ \E user \in NewUsers : register_new_user(user)
    \/ \E login \in UserLogins : do_login_2(login)
    \/ \E cookie \in Cookies : from_request(cookie)
    \/ \E id \in 1..MaxUsers, policy \in SessionFkPolicies : User_destroy_call(id, policy)

SpecOrphans == InitAuth /\ [][NextOrphans]_vars

----------------------------------------------------------------------------

(* Updates racing with deletes: a row is deleted by another request        *)
(* between the find of an update request and its UPDATE statement.         *)

(* PUT /lists/<list_key>/items/<id>, up to Item::update: find_by_key and   *)
(* find_by_id                                                              *)
web_items_update_find(slot, list_key, id, item) ==
    /\ inflight[slot] = NoRequest
    /\ IF List_find_by_key(list_key).some /\ Item_find_by_id(id).some
       THEN /\ inflight' = [inflight EXCEPT ![slot] =
                               [op |-> "web::items::update",
                                item |-> Item_find_by_id(id).value,
                                form |-> item]]
            /\ response' = Suspended("web::items::update")
       ELSE /\ inflight' = inflight
            /\ response' = Failed("web::items::update", "NotFound", 404)
    /\ UNCHANGED <<authVars, lists, items, nextListId, nextItemId, nextKey, fkPolicy,
                   candidate>>

(* PUT /lists/<list_key>/items/<id>: Item::update on the item that was     *)
(* found, and the answer: every error renders the edit form again.         *)
web_items_update_save(slot) ==
    LET form == inflight[slot].form
        updated == Item_update(inflight[slot].item, form.title, form.description) IN
    /\ inflight[slot].op = "web::items::update"
    /\ Stored(updated)
    /\ response' = [op |-> "web::items::update",
                    status |-> IF updated.result.ok THEN 303 ELSE 422,
                    id |-> inflight[slot].item.id,
                    result |-> updated.result]
    /\ inflight' = [inflight EXCEPT ![slot] = NoRequest]
    /\ UNCHANGED <<authVars, nextKey, fkPolicy, candidate>>

(* One update request at a time is suspended between its find and its      *)
(* statement; the requests that create and delete run while it waits.      *)
NextDeleteRace ==
    \/ \E list \in ValidListForms \cap PublicListForms : api_lists_create(list)
    \/ \E key \in Keys, item \in ValidItemForms : web_items_create(key, item)
    \/ \E key \in Keys, list \in PublicListForms :
           api_lists_update_find("a", key, list)
    \/ api_lists_update_save("a")
    \/ \E key \in Keys : api_lists_destroy(key)
    \/ \E key \in Keys, id \in ItemIds, item \in ItemForms :
           web_items_update_find("a", key, id, item)
    \/ web_items_update_save("a")
    \/ \E key \in Keys, id \in ItemIds : web_items_destroy(key, id)

SpecDeleteRace == InitAccount /\ [][NextDeleteRace]_vars

----------------------------------------------------------------------------

(* Logins whose INSERT INTO user_sessions may fail.                        *)

InsertOutcomes == {"stored", "failed"}

create_user_session_cookie_first(user, insert) ==
    IF insert = "failed"
    THEN /\ response' = [op |-> "do_login_2", status |-> 500, user_id |-> user.id,
                         set_cookie |-> Some(random_token)]
         /\ UNCHANGED <<user_sessions, nextSessionId, nextToken>>
    ELSE create_user_session(user)

(* create_user_session: UserSession::create(...).await? returns the error  *)
(* of a failed insert before the cookie is built and added.                *)
create_user_session_outcome(user, insert) ==
    IF insert = "failed"
    THEN /\ response' = [op |-> "do_login_2", status |-> 500, user_id |-> user.id,
                         set_cookie |-> None]
         /\ UNCHANGED <<user_sessions, nextSessionId, nextToken>>
    ELSE create_user_session(user)

(* POST /login: verify_user_login, then create_user_session(...).await?    *)
do_login_2_outcome(login, insert) ==
    /\ IF verify_user_login(login).ok
       THEN create_user_session_outcome(verify_user_login(login).value, insert)
       ELSE /\ response' = [op |-> "do_login_2", status |-> 422, login |-> login,
                            error_message |-> verify_user_login(login).error.message,
                            set_cookie |-> None]
            /\ UNCHANGED <<user_sessions, nextSessionId, nextToken>>
    /\ UNCHANGED <<users, nextUserId, now, listVars, candidate>>

NextLogin ==
    \/ \E user \in NewUsers : register_new_user(user)
    \/ \E login \in UserLogins, insert \in InsertOutcomes :
           do_login_2_outcome(login, insert)
    \/ \E cookie \in Cookies : destroy_user_session(cookie)

SpecLogin == InitAuth /\ [][NextLogin]_vars

----------------------------------------------------------------------------

(* The connection pool *)

(* The connections a suspended request holds. *)
PoolHeld(slot) ==
    IF inflight[slot].op = "account::logout" THEN inflight[slot].connections ELSE 0

PoolFree == MaxConnections - (PoolHeld("a") + PoolHeld("b"))

(* What logout_2, the route a failed LoggedInUser guard forwards to, answers. *)
account_logout_2_response(cookie) ==
    [op |-> "account::logout_2", status |-> 303, cookie |-> cookie]

(* POST /logout, first guard: `mut db: Connection<WishlistDb>` takes a     *)
(* connection from the pool; when none is free the acquisition times out.  *)
account_logout_connection(slot, cookie) ==
    /\ inflight[slot] = NoRequest
    /\ IF PoolFree > 0
       THEN /\ inflight' = [inflight EXCEPT ![slot] =
                               [op |-> "account::logout", cookie |-> cookie,
                                connections |-> 1, at |-> "guard"]]
            /\ response' = Suspended("account::logout")
       ELSE /\ response' = [op |-> "account::logout", status |-> 503, cookie |-> cookie]
            /\ UNCHANGED inflight
    /\ UNCHANGED <<authVars, lists, items, nextListId, nextItemId, nextKey, fkPolicy,
                   candidate>>

(* POST /logout, third guard: `_user: &LoggedInUser` reads the cookie and  *)
(* asks for a connection of its own while `db` is held.                    *)
account_logout_guard(slot) ==
    /\ inflight[slot].op = "account::logout"
    /\ inflight[slot].at = "guard"
    /\ IF inflight[slot].cookie.some /\ PoolFree > 0
       THEN /\ inflight' = [inflight EXCEPT ![slot].connections = 2,
                                            ![slot].at = "resolve"]
            /\ response' = Suspended("account::logout")
       ELSE /\ inflight' = [inflight EXCEPT ![slot] = NoRequest]
            /\ response' = account_logout_2_response(inflight[slot].cookie)
    /\ UNCHANGED <<authVars, lists, items, nextListId, nextItemId, nextKey, fkPolicy,
                   candidate>>

(* The guard's two lookups on its own connection, which is dropped at the  *)
(* end of the cached block.                                                *)
account_logout_resolve(slot) ==
    /\ inflight[slot].op = "account::logout"
    /\ inflight[slot].at = "resolve"
    /\ IF LoggedInUser_from_request(inflight[slot].cookie).some
       THEN /\ inflight' = [inflight EXCEPT ![slot].connections = 1,
                                            ![slot].at = "body"]
            /\ response' = Suspended("account::logout")
       ELSE /\ inflight' = [inflight EXCEPT ![slot] = NoRequest]
            /\ response' = account_logout_2_response(inflight[slot].cookie)
    /\ UNCHANGED <<authVars, lists, items, nextListId, nextItemId, nextKey, fkPolicy,
                   candidate>>

(* The body of logout: destroy_user_session on `db`, then the redirect.    *)
account_logout(slot) ==
    /\ inflight[slot].op = "account::logout"
    /\ inflight[slot].at = "body"
    /\ UserSession_destroy_by_token(inflight[slot].cookie.value)
    /\ inflight' = [inflight EXCEPT ![slot] = NoRequest]
    /\ response' = [op |-> "account::logout", status |-> 303,
                    cookie |-> inflight[slot].cookie,
                    remove_cookie |-> inflight[slot].cookie]
    /\ UNCHANGED <<users, nextUserId, nextSessionId, nextToken, now, lists, items,
                   nextListId, nextItemId, nextKey, fkPolicy, candidate>>

(* POST /register and POST /login as single steps: their one guard        *)
(* `mut db: Connection<WishlistDb>` needs a free connection.               *)
account_create_2(user) ==
    /\ PoolFree > 0
    /\ register_new_user(user)

account_do_login_2(login) ==
    /\ PoolFree > 0
    /\ do_login_2(login)

(* Logouts on two request slots sharing the pool with registrations and    *)
(* logins.                                                                 *)
NextPool ==
    \/ \E user \in NewUsers : account_create_2(user)
    \/ \E login \in UserLogins : account_do_login_2(login)
    \/ \E slot \in Slots, cookie \in Cookies : account_logout_connection(slot, cookie)
    \/ \E slot \in Slots : account_logout_guard(slot)
    \/ \E slot \in Slots : account_logout_resolve(slot)
    \/ \E slot \in Slots : account_logout(slot)

SpecPool == InitAccount /\ [][NextPool]_vars

----------------------------------------------------------------------------

(* The session handlers as the source wires them: no route, fairing or     *)
(* task calls UserSession::destroy_outdated, so sessions leave the table   *)
(* only through logout.  Time passes whatever the clients do.              *)

NextRunning ==
    \/ \E user \in NewUsers : register_new_user(user)
    \/ \E login \in UserLogins : do_login_2(login)
    \/ \E cookie \in Cookies : from_request(cookie)
    \/ \E cookie \in Cookies : destroy_user_session(cookie)
    \/ Tick

SpecRunning == InitAuth /\ [][NextRunning]_vars /\ WF_vars(Tick)

----------------------------------------------------------------------------

(* Properties of the validation engine *)

OffendingFields(c) ==
    IF c.type = "NewUser"
    THEN {f \in {"password"} :
              \/ Len(c.password) < 8 \/ Len(c.password) > 128
              \/ c.password \in {"password", "hunter2"}}
         \cup {f \in {"password_confirm"} : c.password_confirm # c.password}
    ELSE {f \in {"list_id"} : c.type = "Item" /\ c.list_id <= 0}
         \cup {f \in {"title"} : c.title < 2 \/ c.title > 256}
         \cup {f \in {"description"} : c.description > 4096}

(* C7: validation is not fail-fast: the ValidationErrors returned for a     *)
(* candidate holds an entry, keyed by field name, for every field that     *)
(* violates a rule, and for no other field.                                *)
C7_AllOffendingFieldsReported ==
    response.op = "validate" => Fields(response.errors) = OffendingFields(candidate)

C7_Witness ==
    /\ response.op = "validate"
    /\ candidate.type = "Item"
    /\ candidate.list_id <= 0 /\ candidate.title = 1 /\ candidate.description > 4096
    /\ Fields(response.errors) = {"list_id", "title", "description"}

----------------------------------------------------------------------------
(* Properties of sessions and logins *)

Resolve(token) == LoggedInUser_from_request(Some(token))

(* The same on given tables. *)
ResolveIn(sessions, table, token) ==
    LoggedInUser_resolve_in(sessions, table, Some(token), {})

Age(s) == now - s.created_at

(* Resolve reads users and user_sessions only: a step that leaves both     *)
(* tables as they are changes the resolution of no token.                  *)
TablesChanged == users' # users \/ user_sessions' # user_sessions

(* C1: session round trip.  The cookie set by a successful                 *)
(* create_user_session resolves to a LoggedInUser with the id of the user  *)
(* the session was created for; a stored session keeps resolving to the    *)
(* same user while it is at most 7 days old and destroy_user_session is    *)
(* not called with its cookie; after destroy_user_session with a cookie,   *)
(* that cookie value resolves to absent, and a cookie value that stopped   *)
(* resolving never resolves again.                                         *)
C1_SessionRoundTrip ==
    [][ /\ (response'.op = "do_login_2" /\ response'.status = 303) =>
               LET user == ResolveIn(user_sessions', users', response'.set_cookie.value) IN
               /\ response'.set_cookie.some
               /\ user.some
               /\ user.value.user.id = response'.user_id
        /\ (response'.op = "destroy_user_session" /\ response'.remove_cookie.some) =>
               ~ResolveIn(user_sessions', users', response'.remove_cookie.value).some
        /\ TablesChanged =>
               \A token \in IssuedTokens :
                   LET before == ResolveIn(user_sessions, users, token)
                       after == ResolveIn(user_sessions', users', token) IN
                   /\ ~before.some => ~after.some
                   /\ \A s \in user_sessions :
                          ( /\ s.token = token
                            /\ now' - s.created_at <= 7
                            /\ ~(/\ response'.op = "destroy_user_session"
                                 /\ response'.remove_cookie = Some(token))
                            /\ before.some )
                          => after = before
      ]_vars

(* Within the validity window, the first cookie issued was destroyed and   *)
(* resolves to absent, while the second still resolves to its user.        *)
C1_Witness ==
    /\ now <= 7
    /\ response.op = "from_request"
    /\ response.cookie = Some(<<"token", 1>>)
    /\ ~response.user.some
    /\ Resolve(<<"token", 2>>).some

(* C2: a session whose created_at is more than 7 days in the past resolves *)
(* to absent, also while its row is still in user_sessions.                *)
C2_ExpiredSessionAbsent ==
    \A s \in user_sessions : Age(s) > 7 => ~Resolve(s.token).some

UsernameKnown(username) == \E u \in users : u.username = username

WrongPassword(login) ==
    \E u \in users :
        u.username = login.username /\ u.password_hash # bcrypt_hash(login.password)

(* C3: a login with an unknown username and a login with a known username  *)
(* and a wrong password have the same outcome, AuthError::InvalidLogin     *)
(* with the same message.                                                  *)
C3_LoginIndistinguishable ==
    \A a, b \in UserLogins :
        (~UsernameKnown(a.username) /\ UsernameKnown(b.username) /\ WrongPassword(b))
        => /\ verify_user_login(a) = verify_user_login(b)
           /\ ~verify_user_login(a).ok
           /\ verify_user_login(a).error.kind = "InvalidLogin"
           /\ verify_user_login(a).error.message = "Incorrect username or password"

(* A login with a known username and a wrong password was refused, while   *)
(* another username is unknown.                                            *)
C3_Witness ==
    /\ response.op = "do_login_2"
    /\ response.status = 422
    /\ UsernameKnown(response.login.username)
    /\ WrongPassword(response.login)
    /\ response.error_message = "Incorrect username or password"
    /\ \E a \in UserLogins : ~UsernameKnown(a.username)

(* C10: destroy_outdated deletes exactly the session rows whose created_at *)
(* is more than 7 days before now, and changes no users row.               *)
C10_PurgeExpiredOnly ==
    [][ response'.op = "destroy_outdated" =>
            /\ user_sessions' = {s \in user_sessions : s.created_at >= now - 7}
            /\ users' = users
            /\ now' = now
      ]_vars

(* destroy_outdated ran with two sessions issued: the older one is gone,   *)
(* the one that is exactly 7 days old is still stored.                     *)
C10_Witness ==
    /\ response.op = "destroy_outdated"
    /\ nextSessionId = 3
    /\ \E s \in user_sessions : user_sessions = {s} /\ s.id = 2 /\ Age(s) = 7

----------------------------------------------------------------------------
(* Properties of lists and items *)

(* C4: a stored private list is never in the public listing, find_by_key   *)
(* with its exact key returns it, and find_by_key with a key no stored     *)
(* list has returns absent.                                                *)
C4_PrivateListAddressing ==
    /\ \A l \in lists :
           l.is_private =>
               /\ l \notin List_all_public
               /\ l \notin api_lists_index_response.body
               /\ List_find_by_key(l.key) = Some(l)
               /\ api_lists_show_response(l.key).status = 200
               /\ api_lists_show_response(l.key).body = l
    /\ \A key \in Keys :
           (~\E l \in lists : l.key = key) =>
               /\ List_find_by_key(key) = None
               /\ api_lists_show_response(key).status = 404

(* The index was served while a private and a public list are stored. *)
C4_Witness ==
    /\ response.op = "api::v1::lists::index"
    /\ \E l \in lists : l.is_private
    /\ \E l \in lists : ~l.is_private /\ l \in List_all_public

ValidText(title, description) ==
    title >= 2 /\ title <= 256 /\ description <= 4096

ListCreated(is_private, title, description) ==
    LET created == List_create(is_private, title, description) IN
    /\ created.result.ok
    /\ List_find_by_key_in(created.lists, created.result.value.key)
           = Some(created.result.value)

ItemCreated(list_id, title, description) ==
    LET created == Item_create(list_id, title, description) IN
    /\ created.result.ok
    /\ Item_find_by_id_in(created.items, created.result.value.id)
           = Some(created.result.value)

(* C5, as claimed: a List::create or Item::create called with a title of   *)
(* 2..256 characters and a description of at most 4096 characters          *)
(* succeeds, and the lookup of the created entity returns it.              *)
C5_ValidCreateSucceeds ==
    ( /\ response.op \in {"api::v1::lists::create", "Item::create",
                          "web::items::create"}
      /\ "request" \in DOMAIN response
      /\ ValidText(response.request.title, response.request.description) )
    => /\ response.status \in {201, 303}
       /\ response.op = "api::v1::lists::create" =>
              \E l \in lists : /\ l.id = nextListId - 1
                               /\ l.title = response.request.title
                               /\ List_find_by_key(l.key) = Some(l)
       /\ response.op # "api::v1::lists::create" =>
              \E i \in items : /\ i.id = nextItemId - 1
                               /\ i.list_id = response.request.list_id
                               /\ Item_find_by_id(i.id) = Some(i)

(* C5, amended: the same, for an Item only when its list_id is the id of a *)
(* stored list.                                                            *)
C5_ValidCreateOfStoredListSucceeds ==
    \A title \in TextInputs, description \in DescriptionInputs :
        ValidText(title, description) =>
            /\ \A is_private \in BOOLEAN : ListCreated(is_private, title, description)
            /\ \A list_id \in ListIdInputs :
                   (\E l \in lists : l.id = list_id) =>
                       ItemCreated(list_id, title, description)

(* An item was just created in a stored list. *)
C5_Witness ==
    /\ response.op = "Item::create"
    /\ response.status = 303
    /\ \E i \in items, l \in lists :
           /\ i.id = nextItemId - 1 /\ i.list_id = l.id
           /\ Item_find_by_id(i.id) = Some(i)
           /\ List_find_by_key(l.key) = Some(l)

TitleRejected(created) ==
    /\ ~created.result.ok
    /\ created.result.error.kind = "Validation"
    /\ "title" \in Fields(created.result.error.errors)
    /\ created.lists = lists /\ Cardinality(created.lists) = List_count
    /\ created.items = items /\ Cardinality(created.items) = Item_count

(* C6: for every title shorter than 2 or longer than 256 characters,       *)
(* List::create and Item::create fail with a ValidationError that has a    *)
(* title entry, and no row is stored.                                      *)
C6_InvalidTitleRejected ==
    \A title \in TextInputs, description \in DescriptionInputs :
        (title < 2 \/ title > 256) =>
            /\ \A is_private \in BOOLEAN :
                   TitleRejected(List_create(is_private, title, description))
            /\ \A list_id \in ListIdInputs :
                   TitleRejected(Item_create(list_id, title, description))

(* A create with an invalid title was just refused, with a list stored. *)
C6_Witness ==
    /\ response.op = "api::v1::lists::create"
    /\ response.status = 500
    /\ response.failure = "Validation"
    /\ List_count = 1

(* C8: every stored item's list_id is the id of a stored list. *)
C8_NoOrphanItems ==
    \A i \in items : \E l \in lists : l.id = i.list_id

(* An item insert was rejected because its list was deleted after the      *)
(* handler had found it, while another list still has an item.             *)
C8_Witness ==
    /\ response.op = "web::items::create"
    /\ response.status = 422
    /\ response.failure = "Database"
    /\ items # {}

ApiListHandlers ==
    {"api::v1::lists::index", "api::v1::lists::show", "api::v1::lists::create",
     "api::v1::lists::update", "api::v1::lists::destroy"}

(* C9: on every JSON API list endpoint a validation failure is answered    *)
(* with 422, not-found with 404 and any other storage failure with 500.    *)
C9_ApiErrorStatus ==
    (response.op \in ApiListHandlers /\ "failure" \in DOMAIN response) =>
        /\ response.failure = "Validation" => response.status = 422
        /\ response.failure \in {"NotFound", "RowNotFound"} => response.status = 404
        /\ response.failure \in {"Database", "Other"} => response.status = 500

(* C11: destroy_user_session on a request without a session_id cookie      *)
(* succeeds, deletes no session and removes no cookie; on a request with   *)
(* the cookie it deletes exactly the sessions whose token is the cookie    *)
(* value, keeps every other session and removes the cookie.  No users row  *)
(* changes either way.                                                     *)
C11_DestroySessionFrame ==
    [][ response'.op = "destroy_user_session" =>
            \A cookie \in Cookies :
                destroy_user_session(cookie) =>
                    /\ response'.result = Ok("unit")
                    /\ users' = users
                    /\ ~cookie.some =>
                           /\ user_sessions' = user_sessions
                           /\ response'.remove_cookie = None
                    /\ cookie.some =>
                           /\ \A s \in user_sessions :
                                  s \in user_sessions' <=> s.token # cookie.value
                           /\ user_sessions' \subseteq user_sessions
                           /\ response'.remove_cookie = cookie
      ]_vars

(* A logout deleted the session of its cookie while the session of another *)
(* login stays stored.                                                     *)
C11_Witness ==
    /\ response.op = "destroy_user_session"
    /\ response.remove_cookie = Some(<<"token", 1>>)
    /\ nextSessionId = 3
    /\ \E s \in user_sessions : user_sessions = {s} /\ s.token = <<"token", 2>>

----------------------------------------------------------------------------
(* Properties of the account pages *)

SessionOf(cookie) == {s \in user_sessions : cookie.some /\ s.token = cookie.value}

(* C12: the resolution of the logged-in user is None or a LoggedInUser,    *)
(* never an error.  It is None without a session_id cookie, None when no   *)
(* stored session has the cookie's token, None when the connection or a    *)
(* lookup fails; a LoggedInUser comes only from a stored session with the  *)
(* cookie's token, and is the stored user with id = session.user_id.  The  *)
(* account page answers 200 or the redirect of show_2 accordingly.         *)
C12_ResolutionNeverFails ==
    /\ \A cookie \in Cookies, faults \in SUBSET StorageFaults :
           LET resolved == LoggedInUser_resolve(cookie, faults) IN
           /\ resolved \in {None} \cup {Some([user |-> u]) : u \in users}
           /\ ~cookie.some => resolved = None
           /\ SessionOf(cookie) = {} => resolved = None
           /\ (cookie.some /\ faults # {}) => resolved = None
           /\ resolved.some =>
                  \E s \in SessionOf(cookie) : resolved.value.user.id = s.user_id
           /\ (faults = {} /\ \E s \in SessionOf(cookie), u \in users : u.id = s.user_id)
                  => resolved.some
    /\ response.op \in {"account::show", "account::show_2"} =>
           /\ response.status \in {200, 303}
           /\ response.status = 200 <=>
                  LoggedInUser_resolve(response.cookie, response.faults).some

(* The account page was requested with the cookie of a stored session      *)
(* while the session lookup failed: the request was forwarded to show_2.   *)
C12_Witness ==
    /\ response.op = "account::show_2"
    /\ response.faults = {"find_by_token"}
    /\ SessionOf(response.cookie) # {}
    /\ Cardinality(users) = 2

----------------------------------------------------------------------------
(* Properties of updates *)

(* The in-memory List a caller may hand to save or update for the stored   *)
(* row l: any key, any of the edited fields.                               *)
InMemory(l, key, form) ==
    [id |-> l.id, key |-> key, is_private |-> form.is_private, title |-> form.title,
     description |-> form.description]

(* C13: a stored list keeps the id and key it was created with (the n-th   *)
(* stored list is created with id n and the n-th generated key), and a     *)
(* List::save or List::update of a stored row, whatever key the in-memory  *)
(* value carries, changes only is_private, title and description of that   *)
(* row and returns it with the stored id and key.                          *)
C13_KeyImmutable ==
    /\ \A l \in lists : l.key = <<"key", l.id>>
    /\ \A l \in lists, key \in Keys \cup {random_key}, form \in EditForms :
           LET self == InMemory(l, key, form)
               row == [l EXCEPT !.is_private = form.is_private, !.title = form.title,
                                !.description = form.description] IN
           \A saved \in {List_save(self),
                         List_update([id |-> l.id, key |-> key], form.is_private,
                                     form.title, form.description)} :
               /\ saved.items = items
               /\ saved.result.ok => /\ saved.result.value = row
                                     /\ saved.lists = (lists \ {l}) \cup {row}
               /\ ~saved.result.ok => saved.lists = lists

(* An update was served and changed the title of one of two stored lists. *)
C13_Witness ==
    /\ response.op = "api::v1::lists::update"
    /\ response.status = 200
    /\ Cardinality(lists) = 2
    /\ \E l \in lists : l.title = TitleMax /\ l.key = <<"key", l.id>>

----------------------------------------------------------------------------
(* Properties of the values handed out *)

StoredHashes == {u.password_hash : u \in users}

(* A value that carries a stored password hash in its password_hash field. *)
CarriesHash(value) ==
    "password_hash" \in DOMAIN value /\ value.password_hash \in StoredHashes

(* C14: no value handed out carries a stored password hash: not the        *)
(* serialized LoggedInUser given to the account template, for any cookie,  *)
(* not the User returned by User::create and User::update, not the rows of *)
(* User::all.                                                              *)
C14_PasswordHashNotSerialized ==
    /\ \A cookie \in Cookies :
           LET resolved == LoggedInUser_resolve(cookie, {}) IN
           resolved.some => ~CarriesHash(LoggedInUser_serialize(resolved.value).user)
    /\ \A u \in User_all : ~CarriesHash(u)
    /\ \A username \in Usernames :
           LET created == User_create(username, "user@example.org",
                                      bcrypt_hash("correct-horse")) IN
           created.result.ok =>
               /\ ~CarriesHash(created.result.value)
               /\ created.result.value.password_hash \notin
                      {u.password_hash : u \in created.users}
    /\ \A u \in users, username \in Usernames :
           LET updated == User_update(u, username, "other@example.org") IN
           updated.result.ok => ~CarriesHash(updated.result.value)
    /\ response.op = "account::show" => ~CarriesHash(response.context.user.user)

(* The account page was rendered for a logged-in user whose stored row has *)
(* a password hash.                                                        *)
C14_Witness ==
    /\ response.op = "account::show"
    /\ \E u \in users : /\ u.id = response.context.user.user.id
                        /\ u.password_hash = bcrypt_hash("correct-horse")

----------------------------------------------------------------------------
(* Properties of concurrent creations *)

(* A registration answered after its INSERT. *)
RegistrationAnswered ==
    /\ response.op = "account::create_2"
    /\ response.status \in {303, 422}
    /\ ~(response.result.ok = FALSE /\ response.result.error.kind \in {"Validation", "Other"})

(* C15: with registrations racing and logins and list creations in any     *)
(* order, no two stored users share a username, no two stored lists share  *)
(* a key and no two stored sessions share a token.  A registration whose   *)
(* username is already stored when its INSERT runs inserts nothing and     *)
(* gets DataError::Sqlx, not a User; one whose INSERT succeeds gets the    *)
(* stored row of that username.                                            *)
C15_UniqueUnderConcurrency ==
    /\ \A u, v \in users : (u.username = v.username \/ u.id = v.id) => u = v
    /\ \A l, m \in lists : (l.key = m.key \/ l.id = m.id) => l = m
    /\ \A s, t \in user_sessions : (s.token = t.token \/ s.id = t.id) => s = t
    /\ \A slot \in Slots :
           inflight[slot].op = "account::create_2" =>
               LET user == inflight[slot].register
                   created == User_create(user.username, user.email,
                                          inflight[slot].password_hash) IN
               IF \E u \in users : u.username = user.username
               THEN created = UserEffect(Err(Sqlx("Database")), users)
               ELSE /\ created.result.ok
                    /\ created.result.value.username = user.username
                    /\ Cardinality(created.users) = Cardinality(users) + 1
    /\ RegistrationAnswered =>
           /\ \E u \in users : u.username = response.register.username
           /\ response.status = 303 <=> response.result.ok
           /\ response.result.ok =>
                  \E u \in users : /\ u.id = response.result.value.id
                                   /\ u.username = response.register.username
           /\ ~response.result.ok => response.result.error = Sqlx("Database")

(* A registration of a stored username was refused by the storage while    *)
(* the other request slot holds a registration of the same username that   *)
(* has passed validation; two lists and two sessions are stored.           *)
C15_Witness ==
    /\ RegistrationAnswered
    /\ response.result = Err(Sqlx("Database"))
    /\ \E slot \in Slots :
           /\ inflight[slot].op = "account::create_2"
           /\ inflight[slot].register.username = response.register.username
    /\ Cardinality(lists) = 2
    /\ Cardinality(user_sessions) = 2

----------------------------------------------------------------------------
(* Properties of the connection pool *)

(* C16: no request holds more than one pooled connection at a time. *)
C16_OneConnectionPerRequest ==
    \A slot \in Slots : PoolHeld(slot) <= 1

----------------------------------------------------------------------------
(* Properties of the rows returned by writes *)

(* The List and Item writes return the row a find reads afterwards. *)
ListAndItemWritesReturnStoredRow ==
    /\ \A list \in ListForms :
           LET created == List_create(list.is_private, list.title, list.description) IN
           created.result.ok =>
               List_find_by_key_in(created.lists, created.result.value.key)
                   = Some(created.result.value)
    /\ \A l \in lists, list \in EditForms :
           LET updated == List_update(l, list.is_private, list.title, list.description) IN
           updated.result.ok =>
               List_find_by_key_in(updated.lists, l.key) = Some(updated.result.value)
    /\ \A l \in lists, item \in ItemForms :
           LET created == Item_create(l.id, item.title, item.description) IN
           created.result.ok =>
               Item_find_by_id_in(created.items, created.result.value.id)
                   = Some(created.result.value)
    /\ \A i \in items, item \in ItemEditForms :
           LET updated == Item_update(i, item.title, item.description) IN
           updated.result.ok =>
               Item_find_by_id_in(updated.items, i.id) = Some(updated.result.value)
    /\ (response.op = "web::items::update" /\ response.status = 303) =>
           Item_find_by_id(response.request.id) = Some(response.result.value)

(* The hashes registrations store. *)
RegisteredHashes == {bcrypt_hash(password) : password \in RegisterPasswords}

(* The User writes applicable in the current state: their effects. *)
UserWrites ==
    {User_create(username, "user@example.org", password_hash) :
         username \in Usernames, password_hash \in RegisteredHashes}
    \cup {User_update(u, username, "user@example.org") :
              u \in users, username \in Usernames}

(* The stored row of the user a successful write returned. *)
StoredAfter(write) == User_find_by_id_in(write.users, write.result.value.id)

(* C17 as stated: the entity a successful create or update returns is      *)
(* field-for-field equal to what a subsequent find of the same row returns, *)
(* for List, Item and User.                                                *)
C17_WriteReturnsStoredRow ==
    /\ ListAndItemWritesReturnStoredRow
    /\ \A write \in UserWrites :
           write.result.ok => StoredAfter(write) = Some(write.result.value)

(* C17, amended: a List or Item returned by create or update equals the    *)
(* row a subsequent find returns; a User returned by User::create or       *)
(* User::update equals the row find_by_id returns in id, username and      *)
(* email, but its password_hash is the empty string while the found row    *)
(* carries the stored hash.                                                *)
C17_WriteReturnsStoredRowButHash ==
    /\ ListAndItemWritesReturnStoredRow
    /\ \A write \in UserWrites :
           write.result.ok =>
               /\ StoredAfter(write).some
               /\ write.result.value = User_returning(StoredAfter(write).value)
               /\ write.result.value.password_hash = EmptyHash
               /\ StoredAfter(write).value.password_hash \in RegisteredHashes
               /\ StoredAfter(write).value.password_hash # EmptyHash
    /\ (response.op \in {"register_new_user", "User::update"} /\ response.result.ok) =>
           /\ User_find_by_id_in(users, response.result.value.id).some
           /\ response.result.value
                  = User_returning(User_find_by_id_in(users, response.result.value.id).value)
           /\ response.result.value
                  # User_find_by_id_in(users, response.result.value.id).value

(* User::update has returned a renamed user, with two lists and an item    *)
(* edited to the longest title stored.                                     *)
C17_Witness ==
    /\ response.op = "User::update"
    /\ response.result.ok
    /\ response.result.value.username = "bob"
    /\ \E u \in users : u.id = response.result.value.id /\ u.username = "bob"
                            /\ u.password_hash = bcrypt_hash("correct-horse")
    /\ Cardinality(lists) = 2
    /\ \E i \in items : i.title = TitleMax

----------------------------------------------------------------------------
(* Properties of registration *)

(* The fields of a registration form that break a rule. *)
OffendingRegisterFields(user) ==
    (IF \/ Len(user.password) < PasswordMin
         \/ Len(user.password) > PasswordMax
         \/ user.password \in {"password", "hunter2"}
     THEN {"password"} ELSE {})
    \cup (IF user.password_confirm # user.password THEN {"password_confirm"} ELSE {})

(* A registration answered without reaching the INSERT. *)
RegistrationRefused(answer) ==
    /\ answer.op = "account::create_2"
    /\ answer.status = 422
    /\ answer.result.error.kind \in {"Validation", "Other"}

(* C18: a registration form whose password is shorter than 8 or longer     *)
(* than 128 characters or is 'password' or 'hunter2', or whose             *)
(* password_confirm differs from the password, is answered with a          *)
(* ValidationError whose entries are keyed by exactly the offending fields *)
(* and changes neither the users table nor what is in flight; a hashing    *)
(* failure on a valid form is answered with that error and changes nothing *)
(* either; and a row enters the users table only from a valid form, with   *)
(* the hash of its password.                                               *)
C18_InvalidRegistrationPersistsNothing ==
    [][ /\ response'.op = "account::create_2" =>
               \A user \in RegisterForms :
                   {e.field : e \in NewUser_validate(user)} = OffendingRegisterFields(user)
        /\ RegistrationRefused(response') =>
               /\ users' = users
               /\ nextUserId' = nextUserId
               /\ inflight' = inflight
               /\ ~response'.result.ok
               /\ response'.result.error.kind = "Validation" =>
                      /\ OffendingRegisterFields(response'.register) # {}
                      /\ {e.field : e \in response'.result.error.errors}
                             = OffendingRegisterFields(response'.register)
               /\ response'.result.error.kind = "Other" =>
                      OffendingRegisterFields(response'.register) = {}
        /\ users' # users =>
               \E slot \in Slots :
                   /\ inflight[slot].op = "account::create_2"
                   /\ OffendingRegisterFields(inflight[slot].register) = {}
                   /\ users' = users \cup
                          {[id |-> nextUserId,
                            username |-> inflight[slot].register.username,
                            email |-> inflight[slot].register.email,
                            password_hash |->
                                bcrypt_hash(inflight[slot].register.password)]}
      ]_vars

(* With a user stored and a registration in flight, a form with the        *)
(* password 'hunter2' was refused for its password.                        *)
C18_Witness ==
    /\ RegistrationRefused(response)
    /\ response.register.password = "hunter2"
    /\ response.result.error = Validation({FieldError("password", "length"),
                                           FieldError("password", "insecure")})
    /\ Cardinality(users) = 1
    /\ \E slot \in Slots : inflight[slot].op = "account::create_2"

----------------------------------------------------------------------------
(* Properties of refused updates *)

(* The entity in memory once update has set the new fields on it. *)
ListInMemory(l, list) ==
    [l EXCEPT !.is_private = list.is_private, !.title = list.title,
              !.description = list.description]

ItemInMemory(i, item) ==
    [i EXCEPT !.title = item.title, !.description = item.description]

ListEdits == [is_private : BOOLEAN, title : TextInputs, description : DescriptionInputs]

ItemEdits == [title : TextInputs, description : DescriptionInputs]

(* C19: when List::update or Item::update is called on a stored row with   *)
(* fields that fail validation, it returns exactly the ValidationError of  *)
(* the validation engine for the entity as mutated in memory, and both     *)
(* tables are left as they were; no stored row is invalid.                 *)
C19_InvalidUpdateLeavesRow ==
    /\ \A l \in lists, list \in ListEdits :
           LET self == ListInMemory(l, list)
               updated == List_update(l, list.is_private, list.title, list.description) IN
           List_validate(self) # {} =>
               /\ updated = Effect(Err(Validation(List_validate(self))), lists, items)
               /\ List_find_by_key_in(updated.lists, l.key) = Some(l)
               /\ self # l
    /\ \A i \in items, item \in ItemEdits :
           LET self == ItemInMemory(i, item)
               updated == Item_update(i, item.title, item.description) IN
           Item_validate(self) # {} =>
               /\ updated = Effect(Err(Validation(Item_validate(self))), lists, items)
               /\ Item_find_by_id_in(updated.items, i.id) = Some(i)
               /\ self # i
    /\ \A l \in lists : List_validate(l) = {}
    /\ \A i \in items : Item_validate(i) = {}
    /\ (response.op = "web::items::update" /\ response.status = 422
            /\ response.result.error.kind = "Validation") =>
           LET stored == Item_find_by_id(response.request.id) IN
           /\ stored.some
           /\ stored.value.title # response.request.item.title
           /\ response.result.error
                  = Validation(Item_validate(ItemInMemory(stored.value,
                                                          response.request.item)))

(* An item whose title had been edited to the longest one was then sent a  *)
(* one-character title, which was refused.                                 *)
C19_Witness ==
    /\ response.op = "web::items::update"
    /\ response.status = 422
    /\ response.result = Err(Validation({FieldError("title", "length")}))
    /\ response.request.item.title = 1
    /\ Item_find_by_id(response.request.id).some
    /\ Item_find_by_id(response.request.id).value.title = TitleMax
    /\ Cardinality(lists) = 2

----------------------------------------------------------------------------
(* Properties of concurrent updates *)

Triple(l) == <<l.is_private, l.title, l.description>>

(* C20: with two requests each running find_by_key and then List::update   *)
(* on stored lists in any interleaving, the stored (is_private, title,     *)
(* description) of a list is always the complete triple of one request,    *)
(* the creation or one of the updates, never fields of two of them; the    *)
(* update saved last is the one stored.                                    *)
C20_LastWriterWinsWhole ==
    /\ \A l \in lists :
           Triple(l) \in {Triple(list) : list \in PublicListForms \cup RaceEditForms}
    /\ (response.op = "api::v1::lists::update" /\ response.status = 200) =>
           /\ List_find_by_key(response.key).some
           /\ Triple(List_find_by_key(response.key).value) = Triple(response.request)
    /\ \A slot \in Slots :
           inflight[slot].op = "api::v1::lists::update" =>
               LET form == inflight[slot].form
                   updated == List_update(inflight[slot].list, form.is_private,
                                          form.title, form.description) IN
               /\ updated.result.ok
               /\ Triple(updated.result.value) = Triple(form)
               /\ List_find_by_key_in(updated.lists, inflight[slot].list.key)
                      = Some(updated.result.value)
               /\ \A l \in lists : l.id # inflight[slot].list.id => l \in updated.lists

(* One request has saved its update of a list while the other request,     *)
(* which read the same list before that save, is still to save a different *)
(* form.                                                                   *)
C20_Witness ==
    /\ response.op = "api::v1::lists::update"
    /\ response.status = 200
    /\ \E slot \in Slots :
           /\ inflight[slot].op = "api::v1::lists::update"
           /\ inflight[slot].list.key = response.key
           /\ inflight[slot].form # response.request
           /\ Triple(List_find_by_key(response.key).value) = Triple(response.request)

----------------------------------------------------------------------------
(* Properties of the purge in the running system *)

(* The session with this id is stored and older than 7 days. *)
Outdated(id) ==
    \E s \in user_sessions : s.id = id /\ now - s.created_at > SessionDays

(* C21: every session row whose created_at becomes older than 7 days is    *)
(* eventually deleted from user_sessions.                                  *)
C21_ExpiredEventuallyPurged ==
    \A id \in 1..MaxSessions :
        Outdated(id) ~> ~(\E s \in user_sessions : s.id = id)

----------------------------------------------------------------------------
(* Properties of DELETE /api/v1/lists/<key> *)

(* What C22 says of every DELETE whatever the storage answers. *)
DeleteOfAbsentOrAccepted(key) ==
    /\ ~List_find_by_key(key).some =>
           /\ response'.status = 404
           /\ lists' = lists
           /\ items' = items
    /\ response'.status = 204 =>
           /\ List_find_by_key(key).some
           /\ ~List_find_by_key_in(lists', key).some
           /\ \A l \in {m \in lists' : m.is_private = FALSE} : l.key # key
           /\ Cardinality(lists') = List_count - 1
           /\ \A l \in lists : l.key # key => l \in lists'

----------------------------------------------------------------------------
(* Properties of the item routes *)

(* The item a served item route read, changed or deleted. *)
ItemServed ==
    IF response.op = "web::items::update" THEN response.result.value
    ELSE response.item.value

(* C23: show, update and destroy under /lists/<list_key>/items/<id> act on *)
(* an item only when its list_id is the id of the list addressed by        *)
(* list_key.                                                               *)
C23_ItemRoutesScopedToList ==
    ( /\ response.op \in {"web::items::show", "web::items::update",
                          "web::items::destroy"}
      /\ response.status \in {200, 303}
      /\ response.op # "web::items::update" => response.item.some )
    => ItemServed.list_id = List_find_by_key(response.request.list_key).value.id

----------------------------------------------------------------------------
(* Properties of sessions of deleted users *)

(* The stored sessions whose user is no longer stored. *)
OrphanedSessions ==
    {s \in user_sessions : ~\E u \in users : u.id = s.user_id}

(* C24: a cookie whose token has a session row of a deleted user resolves  *)
(* to None, with the storage working or failing, never to a LoggedInUser;  *)
(* the guard has no error outcome.  User::destroy itself deletes no        *)
(* session: where the schema puts no constraint on user_sessions.user_id,  *)
(* the sessions of the deleted user remain stored.                         *)
C24_OrphanedSessionResolvesAbsent ==
    /\ \A s \in OrphanedSessions, faults \in SUBSET StorageFaults :
           LoggedInUser_resolve(Some(s.token), faults) = None
    /\ \A cookie \in Cookies, faults \in SUBSET StorageFaults :
           LET user == LoggedInUser_resolve(cookie, faults) IN
           user = None \/ (user.some /\ user.value.user \in users)
    /\ (response.op = "from_request" /\ response.cookie.some
            /\ \E s \in OrphanedSessions : s.token = response.cookie.value)
           => response.user = None
    /\ (response.op = "User::destroy" /\ response.result.ok) =>
           /\ ~\E u \in users : u.id = response.id
           /\ response.policy = "none" =>
                  /\ response.sessions \subseteq user_sessions
                  /\ response.sessions \subseteq OrphanedSessions
           /\ response.policy = "restrict" => response.sessions = {}

(* A request carried the cookie of a session that is still stored while    *)
(* its user has been deleted, and was resolved to None.                    *)
C24_Witness ==
    /\ response.op = "from_request"
    /\ response.cookie.some
    /\ \E s \in OrphanedSessions : s.token = response.cookie.value
    /\ response.user = None
    /\ users # {}

----------------------------------------------------------------------------
(* Properties of updates racing with deletes *)

(* The list, or the item, that the suspended update request found is no    *)
(* longer stored.                                                          *)
FoundListDeleted ==
    /\ inflight["a"].op = "api::v1::lists::update"
    /\ ~\E l \in lists : l.id = inflight["a"].list.id

FoundItemDeleted ==
    /\ inflight["a"].op = "web::items::update"
    /\ ~\E i \in items : i.id = inflight["a"].item.id

(* C25: a deleted row is never brought back by an update.  No step stores  *)
(* a list under an id or key, or an item under an id, that was issued and  *)
(* is no longer stored.  When the list was deleted between the find of an  *)
(* API update and its UPDATE statement, the statement finds no row and the *)
(* answer is RowNotFound with status 404 (a form that fails validation is  *)
(* answered 422 before any statement); when the item was deleted, the      *)
(* result of Item::update is RowNotFound.  The tables are left as they     *)
(* were in both cases.                                                     *)
C25_DeletedRowNotResurrected ==
    [][ /\ \A id \in 1..(nextListId - 1) :
               (~\E l \in lists : l.id = id) => ~\E l \in lists' : l.id = id
        /\ \A key \in IssuedKeys :
               (~\E l \in lists : l.key = key) => ~\E l \in lists' : l.key = key
        /\ \A id \in 1..(nextItemId - 1) :
               (~\E i \in items : i.id = id) => ~\E i \in items' : i.id = id
        /\ (api_lists_update_save("a") /\ FoundListDeleted) =>
               /\ lists' = lists /\ items' = items
               /\ IF List_validate(inflight["a"].form) = {}
                  THEN /\ response'.failure = "RowNotFound"
                       /\ response'.status = 404
                  ELSE response'.status = 422
        /\ (web_items_update_save("a") /\ FoundItemDeleted) =>
               /\ lists' = lists /\ items' = items
               /\ ~response'.result.ok
               /\ Item_validate([inflight["a"].item EXCEPT
                                     !.title = inflight["a"].form.title]) = {}
                      => response'.result.error = Sqlx("RowNotFound")
      ]_vars

(* An API update whose list was deleted after its find was answered 404    *)
(* from the UPDATE statement, and no list has its key.                     *)
C25_Witness ==
    /\ response.op = "api::v1::lists::update"
    /\ response.status = 404
    /\ response.failure = "RowNotFound"
    /\ ~\E l \in lists : l.key = response.key
    /\ lists # {}

----------------------------------------------------------------------------
(* Properties of the creation of sessions *)

(* The login names a stored user with the given id and carries the         *)
(* password that the user's stored hash verifies.                          *)
Authenticates(login, user_id) ==
    \E u \in users : /\ u.username = login.username
                     /\ u.id = user_id
                     /\ bcrypt_verify(login.password, u.password_hash) = Ok(TRUE)

(* C26: a session exists only after a successful authentication.  Every    *)
(* step that adds a row to user_sessions is a login whose credentials      *)
(* verify for the user with the row's user_id, and its answer sets the     *)
(* cookie to the row's token; an answer sets a cookie only when the step   *)
(* stored a session with that token; a login that fails to verify, or      *)
(* whose insert fails, stores no session and sets no cookie; every stored  *)
(* session belongs to a stored user.                                       *)
C26_SessionOnlyAfterAuthentication ==
    [][ /\ \A s \in user_sessions' \ user_sessions :
               /\ \E login \in UserLogins :
                      /\ Authenticates(login, s.user_id)
                      /\ do_login_2_outcome(login, "stored")
               /\ response'.op = "do_login_2"
               /\ response'.status = 303
               /\ response'.set_cookie = Some(s.token)
        /\ response'.op = "do_login_2" =>
               /\ response'.set_cookie.some =>
                      \E s \in user_sessions' \ user_sessions :
                          /\ s.token = response'.set_cookie.value
                          /\ s.user_id = response'.user_id
               /\ \A login \in UserLogins, insert \in InsertOutcomes :
                      (/\ do_login_2_outcome(login, insert)
                       /\ \/ insert = "failed"
                          \/ ~\E u \in users : Authenticates(login, u.id))
                          => /\ user_sessions' = user_sessions
                             /\ response'.set_cookie = None
                             /\ response'.status \in {422, 500}
        /\ \A s \in user_sessions' : \E u \in users' : u.id = s.user_id
      ]_vars

(* A second login was answered with the cookie of the session it stored,   *)
(* for the user it verified.                                               *)
C26_Witness ==
    /\ response.op = "do_login_2"
    /\ response.status = 303
    /\ nextSessionId = 3
    /\ \E s \in user_sessions : /\ s.id = 2
                                /\ Some(s.token) = response.set_cookie
                                /\ s.user_id = response.user_id
                                /\ \E u \in users : u.id = s.user_id

====
